---- MODULE Spec2Model ----
(***************************************************************************)
(* A model of the request / retry / pagination control flow of the         *)
(* quickbase client library (src/quickbase/__init__.py):                   *)
(*   QuickbaseApp, QuickbaseAction.__init__ and its builders,              *)
(*   QuickbaseAction.performAction and recursive_query,                    *)
(* run against a server that holds `total` matching records and refuses    *)
(* (status 75) any query that would return more than `ceiling` rows.       *)
(*                                                                         *)
(* Python values are modelled as follows.                                  *)
(*   - An optional value is a sequence of length 0 (None) or 1 (Some(x)).  *)
(*   - A text is a sequence of words; str.replace acts on every word.      *)
(*   - A list of records is a sequence of segments <<lo, hi>>, each the    *)
(*     record numbers lo..hi in order; list.extend is concatenation.       *)
(*   - The Python call stack is the sequence `stack` of frames, the last   *)
(*     one being the running call; objects live in `heap` and frames name  *)
(*     them by index, so that an object mutated by a callee is seen        *)
(*     mutated by its caller.                                              *)
(***************************************************************************)
EXTENDS Integers, Sequences, FiniteSets, TLC

VARIABLES
    total,      \* server: number of records matching the predicate
    ceiling,    \* server: largest number of rows it returns in one response
    faults,     \* server: responses it may still answer off the ceiling rule,
                \* each among the first MaxFaultAt requests of a call
    app,        \* the QuickbaseApp shared by every action of the session
    heap,       \* the QuickbaseAction objects of the current call
    stack,      \* the frames of performAction / recursive_query
    phase,      \* "idle", "built", "running", "done"
    entry,      \* how the current call was entered
    raised,     \* the exception that ended the current call, or "none"
    ret,        \* the value returned by the call that returned last
    reqlog,     \* the requests of the current call, with the status answered
    sink,       \* environment: how the telemetry sink behaves during the call
    arg,        \* workbench: the input a builder or helper was last applied to
    out,        \* workbench: what it produced
    threads     \* the callers that run performAction at the same time, if any

vars == <<total, ceiling, faults, app, heap, stack, phase, entry, raised, ret,
          reqlog, sink, arg, out, threads>>

----------------------------------------------------------------------------
(* Bounds of the model *)

MaxSmallTotal == 5
MaxSmallCeiling == 2
MaxFaults == 2
MaxFaultAt == 3
MaxQueryLen == 2
MaxDepth == 36
MaxValueLen == 2
MaxIdLen == 2
MaxClistLen == 3
MaxNameLen == 2
MaxLabelLen == 3

(* Program constants *)

PageCeiling == 8192
MinPage == 100

----------------------------------------------------------------------------
(* Python values *)

None == <<>>
Some(x) == <<x>>
IsNone(o) == Len(o) = 0
Get(o) == o[1]

Min(a, b) == IF a <= b THEN a ELSE b

\* str.replace(old, new) on a text of words
StrReplace(text, old, new) ==
    [i \in DOMAIN text |-> IF text[i] = old THEN new ELSE text[i]]

\* str.encode('utf-8'): the payload bytes of a text
Encode(text) == [i \in DOMAIN text |-> <<"b", text[i]>>]

\* bytes.replace(old, new) on a payload
BytesReplace(bytes, old, new) ==
    [i \in DOMAIN bytes |-> IF bytes[i] = <<"b", old>> THEN <<"b", new>> ELSE bytes[i]]

\* len() of a list of records held as segments
RECURSIVE CountRecords(_)
CountRecords(values) ==
    IF values = <<>> THEN 0
    ELSE (values[1][2] - values[1][1] + 1) + CountRecords(Tail(values))

PyNone == [kind |-> "None", n |-> 0]
PyValue(k, x) == [kind |-> k, n |-> x]

----------------------------------------------------------------------------
(* QuickbaseApp *)

AuthKinds == {"ticket", "usertoken"}

\* "<ticket>%s</ticket>" / "<usertoken>%s</usertoken>"
AuthString(kind) == <<kind, "cred", kind>>

\* QuickbaseApp.__init__ with an explicit ticket or token
QuickbaseApp(kind) ==
    [authentication_string |-> AuthString(kind), authentication_type |-> kind]

----------------------------------------------------------------------------
(* QuickbaseAction.__init__ and the request builders *)

\* truth value of an optional text: None and "" are false
Truthy(o) == ~IsNone(o) /\ Get(o) # <<>>

\* "%s" % x
Str(o) == IF IsNone(o) THEN <<"None">> ELSE Get(o)

\* <tag>text</tag>
Element(tag, text) == <<tag>> \o text \o <<tag>>

\* "name=" in text, for one of the names
HasSelector(text, names) ==
    \E i \in 1..(Len(text) - 1) : text[i] \in names /\ text[i + 1] = "="

\* text.split("=", 1)[1]
AfterFirstEq(text) ==
    LET i == CHOOSE k \in 1..Len(text) :
                 text[k] = "=" /\ \A j \in 1..(k - 1) : text[j] # "="
    IN  SubSeq(text, i + 1, Len(text))

\* the API command of an action string
ActionName(action_string) ==
    CASE action_string \in {"query", "qid", "qname"} -> "API_DoQuery"
      [] action_string = "querycount" -> "API_DoQueryCount"
      [] action_string = "add" -> "API_AddRecord"
      [] action_string \in {"edit", "csv"} -> "API_ImportFromCSV"
      [] action_string = "purge" -> "API_PurgeRecords"
      [] action_string = "variable" -> "API_SetDBVar"
      [] OTHER -> action_string

\* the words of an options string in a request body
RECURSIVE OptionsText(_)
OptionsText(options) ==
    IF options = <<>> THEN <<>>
    ELSE <<options[1].k, ToString(options[1].v)>> \o OptionsText(Tail(options))

Built(query, data) == [exc |-> "none", query |-> query, data |-> data]
BuildFailed(exc) == [exc |-> exc, query |-> None, data |-> <<>>]

buildQuery(a, o) ==
    LET encoding == IF o.force_utf8 THEN Element("encoding", <<"utf-8">>) ELSE <<>>
        head == <<"qdbapi">> \o encoding \o a.authentication_string
        clistPart == IF Truthy(o.clist) THEN Element("clist", Get(o.clist)) ELSE <<>>
        slistPart == Element("slist", Str(o.slist))
    IN  IF Truthy(o.query)
        THEN LET q == IF HasSelector(Get(o.query), {"query", "qid", "qname"})
                      THEN AfterFirstEq(Get(o.query))
                      ELSE Get(o.query)
                 body == head \o Element(o.action_string, q)
             IN  IF o.slist = Some(<<"0">>)
                 THEN BuildFailed("NameError")  \* `if clist:` names no variable
                 ELSE Built(Some(q), body \o clistPart \o slistPart)
        ELSE IF o.slist = Some(<<"0">>)
             THEN Built(o.query, head \o clistPart)
             ELSE Built(o.query, head \o clistPart \o slistPart)

buildPurge(a, o) ==
    IF ~o.confirmation THEN BuildFailed("AssertionError")
    ELSE IF ~Truthy(o.query) THEN BuildFailed("AssertionError")
    ELSE LET text == Get(o.query)
             query_type == IF HasSelector(text, {"query"}) THEN "query"
                           ELSE IF HasSelector(text, {"qid"}) THEN "qid"
                           ELSE "query"
             q == IF HasSelector(text, {"query", "qid"}) THEN AfterFirstEq(text)
                  ELSE text
         IN  Built(Some(q), <<"qdbapi">> \o a.authentication_string
                              \o Element(query_type, q))

\* A text read character by character is a sequence of one-character strings.
QUOTE == "\""
COMMA == ","
NEWLINE == "\n"

\* `ch in text`
Has(text, ch) == \E i \in DOMAIN text : text[i] = ch

\* text[:-1]
DropLast(text) == SubSeq(text, 1, Len(text) - 1)

\* text.split(sep): the pieces between the separators, [''] for ''
RECURSIVE Split(_, _)
Split(text, sep) ==
    IF ~Has(text, sep) THEN <<text>>
    ELSE LET i == CHOOSE k \in DOMAIN text :
                      text[k] = sep /\ \A j \in 1..(k - 1) : text[j] # sep
         IN  <<SubSeq(text, 1, i - 1)>> \o Split(SubSeq(text, i + 1, Len(text)), sep)

\* item.replace('"', '""')
RECURSIVE DoubleQuotes(_)
DoubleQuotes(item) ==
    IF item = <<>> THEN <<>>
    ELSE (IF Head(item) = QUOTE THEN <<QUOTE, QUOTE>> ELSE <<Head(item)>>)
         \o DoubleQuotes(Tail(item))

\* '"' + item + '"'
Wrap(item) == <<QUOTE>> \o item \o <<QUOTE>>

\* the quoting of one value
QuoteField(item) ==
    LET a == IF Has(item, QUOTE) THEN Wrap(DoubleQuotes(item))
             ELSE IF Has(item, COMMA) THEN Wrap(item)
             ELSE item
    IN  IF Has(a, NEWLINE) /\ ~(a[1] = QUOTE /\ a[Len(a)] = QUOTE)
        THEN Wrap(a) ELSE a

\* `if item is None: item = ''`
NoneToEmpty(item) == IF IsNone(item) THEN <<>> ELSE Get(item)

\* the inner loop: csv_lines += item + "," for every item of a line
RECURSIVE CsvItems(_)
CsvItems(line) ==
    IF line = <<>> THEN <<>>
    ELSE QuoteField(NoneToEmpty(Head(line))) \o <<COMMA>> \o CsvItems(Tail(line))

\* a list of lists: after each line, csv_lines = csv_lines[:-1] + "\n"
RECURSIVE CsvNested(_, _)
CsvNested(lines, csv_lines) ==
    IF lines = <<>> THEN csv_lines
    ELSE CsvNested(Tail(lines),
                   DropLast(csv_lines \o CsvItems(Head(lines))) \o <<NEWLINE>>)

\* a dict of record id -> line, as the sequence of its <<record_id, line>>
RECURSIVE CsvDict(_, _)
CsvDict(pairs, csv_lines) ==
    IF pairs = <<>> THEN csv_lines
    ELSE CsvDict(Tail(pairs),
                 DropLast(csv_lines \o Head(pairs)[1] \o <<COMMA>>
                          \o CsvItems(Head(pairs)[2])) \o <<NEWLINE>>)

\* The payload of an edit / csv action is [kind, v]: kind "str" (v a text),
\* "list" (v a list of texts and None whose first element is no list),
\* "nested" (v a list whose first element is a list), "dict", or "none".
Payload(kind, v) == [kind |-> kind, v |-> v]
NoPayload == Payload("none", <<>>)

\* the CSV text buildCSV puts into the body: [exc, csv]
CsvText(payload, clist) ==
    LET ok(csv) == [exc |-> "none", csv |-> csv]
        fail(exc) == [exc |-> exc, csv |-> <<>>]
    IN  CASE payload.kind = "str" -> ok(QuoteField(payload.v))
          [] payload.kind = "nested" -> ok(CsvNested(payload.v, <<>>))
          [] payload.kind = "list" ->
               IF payload.v = <<>> THEN fail("IndexError")
               ELSE IF IsNone(Head(payload.v)) THEN ok(<<>>)  \* neither branch
               ELSE ok(DropLast(CsvItems(payload.v)) \o <<NEWLINE>>)
          [] payload.kind = "dict" ->
               IF IsNone(clist) THEN fail("AttributeError")
               ELSE IF ~Has(Split(Get(clist), "."), <<"3">>) THEN fail("AssertionError")
               ELSE ok(CsvDict(payload.v, <<>>))
          [] OTHER -> fail("TypeError")  \* self.data stays None: None + str

buildCSV(a, o, payload) ==
    LET t == CsvText(payload, o.clist)
    IN  IF t.exc # "none" THEN BuildFailed(t.exc)
        ELSE Built(o.query,
                   <<"qdbapi">> \o Element("msInUTC", <<"0">>)
                   \o a.authentication_string
                   \o Element("records_csv", t.csv)
                   \o Element("clist", Str(o.clist))
                   \o Element("skipfirst", <<"0">>))

\* clist given as a list: clist_string += fid + "." for every fid, then [:-1]
RECURSIVE ClistDotted(_)
ClistDotted(clist) ==
    IF clist = <<>> THEN <<>>
    ELSE Head(clist) \o <<".">> \o ClistDotted(Tail(clist))

\* mutant: the trailing "." is kept
ClistStringKeepDot(clist) == ClistDotted(clist)

ClistString(clist) == DropLast(ClistDotted(clist))

\* ch.lower(), on the letters the model uses
Lower(ch) ==
    CASE ch = "A" -> "a"
      [] ch = "B" -> "b"
      [] OTHER    -> ch

\* text.lower()
LowerText(text) == [i \in DOMAIN text |-> Lower(text[i])]

\* d[k] = v on a dict held as a function
Put(d, k, v) == [x \in DOMAIN d \cup {k} |-> IF x = k THEN v ELSE d[x]]

\* generateTableDict: rows <<display name, short label, dbid>> of the file
RECURSIVE TableDict(_, _)
TableDict(rows, table_dict) ==
    IF rows = <<>> THEN table_dict
    ELSE LET row == Head(rows)
             named == IF row[1] \notin DOMAIN table_dict
                      THEN Put(Put(table_dict, row[1], row[3]),
                               LowerText(row[1]), row[3])
                      ELSE table_dict
             labelled == Put(Put(named, row[2], row[3]), LowerText(row[2]), row[3])
         IN  TableDict(Tail(rows), labelled)

generateTableDict(rows) == TableDict(rows, <<>>)

\* the URL of the request: base_url + the table of dbid_key, or dbid_key itself
RequestURL(tables, dbid_key) ==
    IF dbid_key \in DOMAIN tables
    THEN <<"base_url", tables[dbid_key]>>
    ELSE <<"base_url", dbid_key>>

\* the characters \W does not match: letters, digits and the underscore
WordChars == {"a", "A", "b", "B", "6", "_"}

\* mutant: letters keep their case
AlphanumericKeyCased(field_label) ==
    [i \in DOMAIN field_label |->
        IF field_label[i] \in WordChars THEN field_label[i] ELSE "_"]

\* re.compile('\W').sub("_", field_label).lower()
AlphanumericKey(field_label) ==
    LowerText([i \in DOMAIN field_label |->
                  IF field_label[i] \in WordChars THEN field_label[i] ELSE "_"])

\* mutant: the record_count argument is not stored
ActionFieldsWithoutCount(action, query, clist, slist, confirmation, options, force_utf8, record_return, record_count) ==
    [ action_string  |-> IF action = "querycount" THEN "query" ELSE action,
      action         |-> ActionName(action),
      query          |-> query,
      clist          |-> clist,
      slist          |-> slist,
      confirmation   |-> confirmation,
      options        |-> options,
      force_utf8     |-> force_utf8,
      record_return  |-> record_return,
      record_count   |-> None,
      error_75_retry |-> FALSE,
      response       |-> None,
      data           |-> <<>>,
      request_data   |-> <<>>,
      content          |-> None,
      num_recs_input   |-> None,
      num_recs_added   |-> None,
      num_recs_updated |-> None,
      rid_list         |-> None ]

\* QuickbaseAction.__init__: the fields of the object before its body is built
ActionFields(action, query, clist, slist, confirmation, options, force_utf8, record_return, record_count) ==
    [ action_string  |-> IF action = "querycount" THEN "query" ELSE action,
      action         |-> ActionName(action),
      query          |-> query,
      clist          |-> clist,
      slist          |-> slist,
      confirmation   |-> confirmation,
      options        |-> options,
      force_utf8     |-> force_utf8,
      record_return  |-> record_return,
      record_count   |-> record_count,
      error_75_retry |-> FALSE,
      response       |-> None,
      data           |-> <<>>,
      request_data   |-> <<>>,
      \* attributes performAction sets from an import response; None: not set
      content          |-> None,
      num_recs_input   |-> None,
      num_recs_added   |-> None,
      num_recs_updated |-> None,
      rid_list         |-> None ]

\* QuickbaseAction.__init__: [exc, obj]; exc # "none" when construction raises
QuickbaseAction(a, action, query, clist, slist, data, confirmation, options, force_utf8, record_return, record_count) ==
    LET o == ActionFields(action, query, clist, slist, confirmation, options,
                          force_utf8, record_return, record_count)
        \* buildAdd and buildVariable are left out: no action of the session is
        \* an add or a variable
        b == IF o.action_string \in {"query", "qid", "qname"} THEN buildQuery(a, o)
             ELSE IF o.action_string = "purge" THEN buildPurge(a, o)
             ELSE IF o.action_string \in {"edit", "csv"} THEN buildCSV(a, o, data)
             ELSE Built(o.query, <<"qdbapi", "custom_body">>)
        withOptions == IF IsNone(o.options) THEN b.data
                       ELSE b.data \o Element("options", OptionsText(Get(o.options)))
        closed == withOptions \o <<"/qdbapi">>
    IN  [exc |-> b.exc,
         obj |-> [o EXCEPT !.query = b.query, !.data = closed,
                           !.request_data = Encode(closed)]]

----------------------------------------------------------------------------
(* The server *)

Option(k, v) == [k |-> k, v |-> v]

\* the value of the first directive named k in an options string, if any
Directive(options, k) ==
    IF IsNone(options) THEN None
    ELSE LET hits == SelectSeq(Get(options), LAMBDA t : t.k = k)
         IN  IF hits = <<>> THEN None ELSE Some(hits[1].v)

\* the records a query with these options selects: skp+1 .. min(skp+num, total)
Page(options) ==
    LET num == Directive(options, "num")
        skp == IF IsNone(Directive(options, "skp")) THEN 0
               ELSE Get(Directive(options, "skp"))
        lo  == skp + 1
        hi  == IF IsNone(num) THEN total ELSE Min(skp + Get(num), total)
    IN  IF lo > hi THEN <<>> ELSE << <<lo, hi>> >>

\* the status the row ceiling decides: 75, or 0 for "no error"
RegularStatus(o) ==
    IF o.action = "API_DoQuery" /\ CountRecords(Page(o.options)) > ceiling
    THEN 75 ELSE 0

\* the statuses the server may answer to a request of action o
Statuses(o) ==
    {RegularStatus(o)} \cup
    (IF faults = 0 \/ Len(reqlog) >= MaxFaultAt THEN {}
     ELSE {4, 83, 82} \cup (IF o.action = "API_DoQuery" THEN {75} ELSE {}))

\* what an import response may hold: each counter element and the rids list
\* present or absent
ImportContents ==
    [input : {None, Some(<<"2">>)}, added : {None, Some(<<"1">>)},
     updated : {None, Some(<<"1">>)},
     rids : {None, Some(<<>>), Some(<< <<"7">>, <<"8">> >>)}]

NoContent == [input |-> None, added |-> None, updated |-> None, rids |-> None]

\* the contents the server may answer to a request of action o (for a query
\* the records are those of Page, and nothing else of the content is kept)
Contents(o) ==
    IF o.action = "API_ImportFromCSV" THEN ImportContents ELSE {NoContent}

----------------------------------------------------------------------------
(* Frames and control transfer *)

Frame(fn, pc, self, retry) ==
    [fn |-> fn, pc |-> pc, self |-> self, retry |-> retry, frac |-> 0]

Top == stack[Len(stack)]
Running(fn, pc) ==
    /\ phase = "running"
    /\ stack # <<>>
    /\ Top.fn = fn
    /\ Top.pc = pc

\* raise exc: no frame of performAction or recursive_query catches it
Raise(exc) ==
    /\ stack' = <<>>
    /\ phase' = "done"
    /\ raised' = exc
    /\ ret' = PyNone

\* the running frame as it resumes at pc
At(pc) == [Top EXCEPT !.pc = pc]

\* call callee and resume as frame `resume` when it returns; the interpreter
\* refuses a call deeper than its recursion limit
Call(resume, callee) ==
    IF Len(stack) >= MaxDepth
    THEN Raise("RecursionError")
    ELSE /\ stack' = [stack EXCEPT ![Len(stack)] = resume] \o <<callee>>
         /\ UNCHANGED <<phase, raised, ret>>

\* return v to the caller, or to the user when this is the outermost frame
Return(v) ==
    /\ stack' = SubSeq(stack, 1, Len(stack) - 1)
    /\ phase' = IF Len(stack) = 1 THEN "done" ELSE "running"
    /\ ret' = v
    /\ UNCHANGED raised

----------------------------------------------------------------------------
(* Analytics: the telemetry event of every request *)

\* the sink is not configured, takes the point, or fails when the client is
\* constructed or when the point is written
SinkKinds == {"unconfigured", "ok", "construct_fails", "write_fails"}

TelemetryErrors == {"InfluxDBClientError", "ConnectionError"}

\* mutant: the handler of collect lets the exception through
collectReraise(exc) == exc

\* `except Exception: pass` of Analytics.__init__
AnalyticsExcept(exc) == "none"

\* `except Exception as e: pass` of Analytics.collect
collectExcept(exc) == "none"

\* Analytics(): collecting is set only when the client was constructed
Analytics(k) ==
    CASE k = "unconfigured"    -> [exc |-> "none", collecting |-> FALSE]
      [] k = "construct_fails" -> [exc |-> AnalyticsExcept("ConnectionError"),
                                   collecting |-> FALSE]
      [] OTHER                 -> [exc |-> "none", collecting |-> TRUE]

\* Analytics.collect(tags={'action': ...}): the point written, if any
collect(an, k, action) ==
    IF ~an.collecting THEN [exc |-> "none", point |-> None]
    ELSE IF k = "write_fails"
         THEN [exc |-> collectExcept("InfluxDBClientError"), point |-> None]
         ELSE [exc |-> "none", point |-> Some(action)]

\* Analytics().collect(tags={'action': self.action})
Telemetry(k, action) ==
    LET an == Analytics(k)
    IN  IF an.exc # "none" THEN [exc |-> an.exc, point |-> None]
        ELSE collect(an, k, action)

----------------------------------------------------------------------------
(* QuickbaseAction.performAction *)

\* error_75_retry of the object whose recursive_query issued the running
\* request, read as the request is sent; FALSE when no recursive_query runs
IssuerFlag ==
    LET below == {i \in 1..(Len(stack) - 1) : stack[i].fn = "recursive_query"}
    IN  IF below = {} THEN FALSE
        ELSE heap[stack[CHOOSE i \in below : \A j \in below : j <= i].self].error_75_retry

\* the objects on which a recursive_query below the running request is at work
PagedObjects ==
    {stack[i].self : i \in {j \in 1..(Len(stack) - 1) : stack[j].fn = "recursive_query"}}

\* the object whose recursive_query issued the running request
Issuer ==
    LET below == {i \in 1..(Len(stack) - 1) : stack[i].fn = "recursive_query"}
    IN  stack[CHOOSE i \in below : \A j \in below : j <= i].self

\* len(response.values) of the issuer as the request is sent, None without a
\* response or without an issuer
IssuerHeld ==
    IF PagedObjects = {} \/ IsNone(heap[Issuer].response) THEN None
    ELSE Some(CountRecords(Get(heap[Issuer].response)))

RECURSIVE HeldBy(_)
\* the records held in the responses of a set of objects
HeldBy(objs) ==
    IF objs = {} THEN 0
    ELSE LET o == CHOOSE x \in objs : TRUE
         IN  (IF IsNone(heap[o].response) THEN 0
              ELSE CountRecords(Get(heap[o].response))) + HeldBy(objs \ {o})

\* the records the running pagination has accumulated as the request is sent,
\* in whichever of its objects; None while none of them has a response
PaginationHeld ==
    IF \A o \in PagedObjects : IsNone(heap[o].response) THEN None
    ELSE Some(HeldBy(PagedObjects))

\* the credential tag a request body carries
CredentialTag(data) ==
    LET tags == SelectSeq(data, LAMBDA w : w \in AuthKinds)
    IN  IF tags = <<>> THEN "none" ELSE tags[1]

LogEntry(self, o, s, retry) ==
    [obj |-> self, action |-> o.action, num |-> Directive(o.options, "num"),
     skp |-> Directive(o.options, "skp"), status |-> s, retry |-> retry,
     regular |-> (s = RegularStatus(o)),
     point |-> Telemetry(sink, o.action).point,
     flagged |-> IssuerFlag,
     held |-> IssuerHeld,
     pooled |-> PaginationHeld,
     cred |-> CredentialTag(o.data),
     kind |-> app.authentication_type]

\* urlopen(self.request) and the reading of errcode: the server answers s
Request(s) ==
    LET o == heap[Top.self]
    IN  /\ s \in Statuses(o)
        /\ reqlog' = Append(reqlog, LogEntry(Top.self, o, s, Top.retry))
        /\ faults' = IF s = RegularStatus(o) THEN faults ELSE faults - 1

\* mutant: errcode 82 is not told apart and takes the last branch
BranchWithout82(errcode) ==
    CASE errcode = 4  -> "4"
      [] errcode = 83 -> "83"
      [] errcode = 75 -> "75"
      [] OTHER        -> "else"

\* the branch of the if / elif chain an errcode takes
Branch(errcode) ==
    CASE errcode = 4  -> "4"
      [] errcode = 83 -> "83"
      [] errcode = 75 -> "75"
      [] errcode = 82 -> "82"
      [] OTHER        -> "else"

\* mutant: the retry flag is not looked at
AuthRetryIgnored(retry) == FALSE

\* `if retry: raise AuthenticationError`
AuthRetryExhausted(retry) == retry

\* mutant: only authentication_type is set
FlipAppTypeOnly(a, old, new) ==
    [authentication_string |-> a.authentication_string,
     authentication_type   |-> new]

\* the credential rewrite of errcode 4 (ticket -> usertoken) or 83 (the reverse)
FlipApp(a, old, new) ==
    [authentication_string |-> StrReplace(a.authentication_string, old, new),
     authentication_type   |-> new]

\* mutant: only the payload of the request is rewritten
FlipActionPayloadOnly(o, old, new) ==
    [o EXCEPT !.request_data = BytesReplace(o.request_data, old, new)]

\* mutant: only the stored text is rewritten
FlipActionTextOnly(o, old, new) ==
    [o EXCEPT !.data = StrReplace(o.data, old, new)]

\* self.data and self.request.data, rewritten together
FlipAction(o, old, new) ==
    [o EXCEPT !.data = StrReplace(o.data, old, new),
              !.request_data = BytesReplace(o.request_data, old, new)]

\* the rest of performAction, reached only if the telemetry call raised nothing;
\* `rest` are the variables that rest would have set
AfterTelemetry(A, rest) ==
    LET t == Telemetry(sink, heap[Top.self].action)
    IN  IF t.exc = "none" THEN A
        ELSE Raise(t.exc) /\ UNCHANGED rest

performAction_mismatch(branch, old, new) ==
    /\ Running("performAction", "request")
    /\ \E s \in Statuses(heap[Top.self]) :
         /\ Branch(s) = branch
         /\ Request(s)
    /\ AfterTelemetry(
         IF AuthRetryExhausted(Top.retry)
         THEN /\ Raise("AuthenticationError")
              /\ UNCHANGED <<app, heap>>
         ELSE /\ app' = FlipApp(app, old, new)
              /\ heap' = [heap EXCEPT ![Top.self] = FlipAction(@, old, new)]
              /\ Call(At("resent"), Frame("performAction", "request", Top.self, TRUE)),
         <<app, heap>>)
    /\ UNCHANGED <<sink, arg, out, threads, total, ceiling, entry>>

performAction_4 == performAction_mismatch("4", "ticket", "usertoken")

performAction_83 == performAction_mismatch("83", "usertoken", "ticket")

\* the nested self.performAction(retry=True) has returned: its value is dropped
performAction_resent ==
    /\ Running("performAction", "resent")
    /\ Return(PyNone)
    /\ UNCHANGED <<sink, arg, out, threads, total, ceiling, faults, app, heap, entry, reqlog>>

performAction_75 ==
    /\ Running("performAction", "request")
    /\ \E s \in Statuses(heap[Top.self]) :
         /\ Branch(s) = "75"
         /\ Request(s)
    /\ AfterTelemetry(
         /\ heap' = [heap EXCEPT ![Top.self].error_75_retry = TRUE]
         /\ Call(At("paged"), Frame("recursive_query", "start", Top.self, FALSE)),
         <<heap>>)
    /\ UNCHANGED <<sink, arg, out, threads, total, ceiling, app, entry>>

\* self.response = recursive_query(self).response; nothing is returned
performAction_paged ==
    /\ Running("performAction", "paged")
    /\ heap' = [heap EXCEPT ![Top.self].response = heap[ret.n].response]
    /\ Return(PyNone)
    /\ UNCHANGED <<sink, arg, out, threads, total, ceiling, faults, app, entry, reqlog>>

performAction_82 ==
    /\ Running("performAction", "request")
    /\ \E s \in Statuses(heap[Top.self]) :
         /\ Branch(s) = "82"
         /\ Request(s)
    /\ AfterTelemetry(Raise("QuickbaseQueryError"), <<>>)
    /\ UNCHANGED <<sink, arg, out, threads, total, ceiling, app, heap, entry>>

\* `"0"` when the element is absent from the import response
CounterText(element) == IF IsNone(element) THEN <<"0">> ELSE Get(element)

\* the attributes performAction sets on the object from a response without an
\* error status; c is the content of an import response. Only an action whose
\* action_string is 'csv' reaches the counters: every other one has returned.
Received(o, c) ==
    IF o.action = "API_DoQueryCount"
    THEN [o EXCEPT !.response = Some(<<>>)]
    ELSE IF o.action_string # "csv"
    THEN [o EXCEPT !.response =
                     Some(IF o.action = "API_DoQuery" THEN Page(o.options) ELSE <<>>),
                   !.content = IF o.action = "API_ImportFromCSV" THEN Some(c) ELSE @]
    ELSE [o EXCEPT !.content = Some(c),
                   !.num_recs_input = Some(CounterText(c.input)),
                   !.num_recs_added = Some(CounterText(c.added)),
                   !.num_recs_updated = Some(CounterText(c.updated)),
                   !.rid_list = Some(IF IsNone(c.rids) THEN <<>> ELSE Get(c.rids))]

\* the value performAction returns for that response; o is the object after it
Result(o) ==
    CASE o.action = "API_DoQueryCount" -> PyValue("count", total)
      [] o.action # "API_DoQueryCount" /\ o.action_string = "csv" ->
           \* rids.findall on an absent rids: AttributeError, caught, no return
           IF IsNone(Get(o.content).rids) THEN PyNone
           ELSE PyValue("rid_list", Get(o.rid_list))
      [] o.action # "API_DoQueryCount" /\ o.action_string \in {"add", "purge"} ->
           PyValue("response_dict", 0)
      [] OTHER -> PyValue("content", 0)

performAction_else ==
    /\ Running("performAction", "request")
    /\ \E s \in Statuses(heap[Top.self]) :
         /\ Branch(s) = "else"
         /\ Request(s)
    /\ AfterTelemetry(
         \E c \in Contents(heap[Top.self]) :
            LET received == Received(heap[Top.self], c)
            IN  /\ heap' = [heap EXCEPT ![Top.self] = received]
                /\ Return(Result(received)),
         <<heap>>)
    /\ UNCHANGED <<sink, arg, out, threads, total, ceiling, app, entry>>

----------------------------------------------------------------------------
(* recursive_query *)

\* mutant: a count of exactly the ceiling is halved
InitialPageSizeAbove(record_count) ==
    IF record_count > PageCeiling THEN PageCeiling ELSE record_count \div 2

\* the first page size, from the count of matching records
InitialPageSize(record_count) ==
    IF record_count >= PageCeiling THEN PageCeiling ELSE record_count \div 2

\* mutant: the threshold is half of what it is
VolumeErrorBelowHalf(record_return, error_75_retry) ==
    record_return < MinPage \div 2 /\ error_75_retry

\* `record_return < 100 and error_75_retry`
VolumeError(record_return, error_75_retry) ==
    record_return < MinPage /\ error_75_retry

\* mutant: a third instead of a half
Third(record_return) == record_return \div 3

\* int(record_return / 2)
Halve(record_return) == record_return \div 2

\* `len(response.values) >= int(record_count)`
PagingComplete(values, record_count) == CountRecords(values) >= record_count

\* mutant: the caller's num- and skp- directives are kept
AssembleOptionsKeepAll(o) ==
    LET kept == IF IsNone(o.options) THEN <<>> ELSE Get(o.options)
        num  == <<Option("num", Get(o.record_return))>>
        skp  == IF IsNone(o.response) THEN <<>>
                ELSE <<Option("skp", CountRecords(Get(o.response)))>>
    IN  kept \o num \o skp

\* mutant: the skip directive is left out
AssembleOptionsWithoutSkip(o) ==
    LET kept == IF IsNone(o.options) THEN <<>>
                ELSE SelectSeq(Get(o.options), LAMBDA t : t.k \notin {"num", "skp"})
    IN  kept \o <<Option("num", Get(o.record_return))>>

\* the options of the next fetch: the caller's, less num- and skp-, plus ours
AssembleOptions(o) ==
    LET kept == IF IsNone(o.options) THEN <<>>
                ELSE SelectSeq(Get(o.options), LAMBDA t : t.k \notin {"num", "skp"})
        num  == <<Option("num", Get(o.record_return))>>
        skp  == IF IsNone(o.response) THEN <<>>
                ELSE <<Option("skp", CountRecords(Get(o.response)))>>
    IN  kept \o num \o skp

\* response.values after the page of the fetch is merged in
Merge(response, page) ==
    IF IsNone(response) THEN page ELSE Some(Get(response) \o Get(page))

\* record_return is None: ask the server for the count
recursive_query_count ==
    /\ Running("recursive_query", "start")
    /\ IsNone(heap[Top.self].record_return)
    /\ LET new == QuickbaseAction(app, "querycount", heap[Top.self].query, None, None,
                                  NoPayload, FALSE, None, FALSE, None, None)
       IN  /\ heap' = Append(heap, new.obj)
           /\ Call(At("counted"), Frame("performAction", "request", Len(heap) + 1, FALSE))
    /\ UNCHANGED <<sink, arg, out, threads, total, ceiling, faults, app, entry, reqlog>>

\* the count is back: int() of it, and the first page size
recursive_query_counted ==
    /\ Running("recursive_query", "counted")
    /\ IF ret.kind # "count"
       THEN /\ Raise("TypeError")
            /\ UNCHANGED heap
       ELSE /\ heap' = [heap EXCEPT
                           ![Top.self].record_count = Some(ret.n),
                           ![Top.self].record_return = Some(InitialPageSize(ret.n))]
            /\ stack' = [stack EXCEPT ![Len(stack)].pc = "assemble"]
            /\ UNCHANGED <<phase, raised, ret>>
    /\ UNCHANGED <<sink, arg, out, threads, total, ceiling, faults, app, entry, reqlog>>

recursive_query_fatal ==
    /\ Running("recursive_query", "start")
    /\ ~IsNone(heap[Top.self].record_return)
    /\ VolumeError(Get(heap[Top.self].record_return), heap[Top.self].error_75_retry)
    /\ Raise("QuickbaseError")
    /\ UNCHANGED <<sink, arg, out, threads, total, ceiling, faults, app, heap, entry, reqlog>>

recursive_query_halve ==
    /\ Running("recursive_query", "start")
    /\ ~IsNone(heap[Top.self].record_return)
    /\ ~VolumeError(Get(heap[Top.self].record_return), heap[Top.self].error_75_retry)
    /\ heap[Top.self].error_75_retry
    /\ heap' = [heap EXCEPT ![Top.self].record_return = Some(Halve(Get(@))),
                            ![Top.self].error_75_retry = FALSE]
    /\ Call(At("assemble"), Frame("recursive_query", "start", Top.self, FALSE))
    /\ UNCHANGED <<sink, arg, out, threads, total, ceiling, faults, app, entry, reqlog>>

recursive_query_proceed ==
    /\ Running("recursive_query", "start")
    /\ ~IsNone(heap[Top.self].record_return)
    /\ ~heap[Top.self].error_75_retry
    /\ stack' = [stack EXCEPT ![Len(stack)].pc = "assemble"]
    /\ UNCHANGED <<sink, arg, out, threads, total, ceiling, faults, app, heap, phase, entry, raised, ret,
                   reqlog>>

\* `response is not None` and enough records are held
Complete(o) ==
    /\ ~IsNone(o.response)
    /\ PagingComplete(Get(o.response), Get(o.record_count))

\* enough records are held: return the object
recursive_query_complete ==
    /\ Running("recursive_query", "assemble")
    /\ Complete(heap[Top.self])
    /\ Return(PyValue("object", Top.self))
    /\ UNCHANGED <<sink, arg, out, threads, total, ceiling, faults, app, heap, entry, reqlog>>

\* build the fractional query and perform it
recursive_query_fetch ==
    /\ Running("recursive_query", "assemble")
    /\ ~Complete(heap[Top.self])
    /\ LET o   == heap[Top.self]
           new == QuickbaseAction(app, "query", o.query, o.clist, o.slist, NoPayload,
                                  FALSE, Some(AssembleOptions(o)), FALSE,
                                  o.record_return, o.record_count)
       IN  IF new.exc # "none"
           THEN /\ Raise(new.exc)
                /\ UNCHANGED heap
           ELSE /\ heap' = Append(heap, new.obj)
                /\ Call([At("merge") EXCEPT !.frac = Len(heap) + 1],
                        Frame("performAction", "request", Len(heap) + 1, FALSE))
    /\ UNCHANGED <<sink, arg, out, threads, total, ceiling, faults, app, entry, reqlog>>

\* merge the page and recurse
recursive_query_merge ==
    /\ Running("recursive_query", "merge")
    /\ heap' = [heap EXCEPT ![Top.self].response = Merge(@, heap[Top.frac].response)]
    /\ Call(At("finish"), Frame("recursive_query", "start", Top.self, FALSE))
    /\ UNCHANGED <<sink, arg, out, threads, total, ceiling, faults, app, entry, reqlog>>

\* `return query_object`
recursive_query_finish ==
    /\ Running("recursive_query", "finish")
    /\ Return(ret)
    /\ UNCHANGED <<sink, arg, out, threads, total, ceiling, faults, app, heap, entry, reqlog>>

----------------------------------------------------------------------------
(* The session: the user builds an action on the shared app and runs it *)

RECURSIVE Texts(_, _)
\* the texts of at most n words over an alphabet
Texts(alphabet, n) ==
    IF n = 0 THEN {<<>>}
    ELSE LET shorter == Texts(alphabet, n - 1)
         IN  shorter \cup {Append(t, w) : t \in shorter, w \in alphabet}

\* the predicates a purge is built with
PurgeQueries ==
    {None} \cup {Some(t) : t \in Texts({"query", "qid", "=", "p"}, MaxQueryLen)}

\* the predicate and sort list a query is built with
QueryInputs ==
    { <<Some(<<"p">>), None>>, <<Some(<<"p">>), Some(<<"0">>)>> }

\* totals and row ceilings chosen so that every branch of the paging is taken
AnchorScenarios ==
    { <<150, 100>>, <<151, 100>>, <<199, 99>>, <<200, 49>>, <<200, 50>>,
      <<201, 100>>, <<400, 100>>, <<400, 200>>, <<8191, 8192>>, <<8192, 8192>>,
      <<8193, 8192>>, <<20000, 0>>, <<20000, 4000>> }

Scenarios ==
    ((0..MaxSmallTotal) \X (0..MaxSmallCeiling)) \cup AnchorScenarios

\* the session after the app is constructed and before any action is built
Idle ==
    /\ total = 0
    /\ ceiling = 0
    /\ faults = 0
    /\ \E kind \in AuthKinds : app = QuickbaseApp(kind)
    /\ heap = <<>>
    /\ stack = <<>>
    /\ phase = "idle"
    /\ entry = "none"
    /\ raised = "none"
    /\ ret = PyNone
    /\ reqlog = <<>>
    /\ sink = "unconfigured"
    /\ threads = <<>>

Init ==
    /\ Idle
    /\ arg = <<>>
    /\ out = <<>>

\* QuickbaseAction(app, dbid_key, action, ...) by the user
Construct(action, query, clist, slist, data, confirmation, options) ==
    /\ phase = "idle"
    /\ LET new == QuickbaseAction(app, action, query, clist, slist, data,
                                  confirmation, options, FALSE, None, None)
       IN  IF new.exc # "none"
           THEN /\ heap' = <<>>
                /\ phase' = "done"
                /\ raised' = new.exc
           ELSE /\ heap' = <<new.obj>>
                /\ phase' = "built"
                /\ raised' = "none"
    /\ faults' \in 0..MaxFaults
    /\ sink' \in SinkKinds
    /\ UNCHANGED <<app, stack, entry, ret, reqlog, arg, out, threads>>

\* a query, on a table that holds `total` matching records at that time
ConstructQuery ==
    /\ \E qi \in QueryInputs :
         Construct("query", qi[1], None, qi[2], NoPayload, FALSE, None)
    /\ \E sc \in Scenarios : total' = sc[1] /\ ceiling' = sc[2]

ConstructPurge ==
    /\ \E q \in PurgeQueries, c \in BOOLEAN :
         Construct("purge", q, None, None, NoPayload, c, None)
    /\ UNCHANGED <<total, ceiling>>

\* the rows an import is built with, and the field list naming their columns
ImportRows == Payload("nested", << <<Some(<<"7">>), Some(<<"a">>)>> >>)
ImportClist == Some(<<"3", ".", "6">>)

\* an import of rows, under either of its two action names
ConstructImport ==
    /\ \E action \in {"edit", "csv"} :
         Construct(action, None, ImportClist, None, ImportRows, FALSE, None)
    /\ UNCHANGED <<total, ceiling>>

\* action.performAction() by the user
CallPerformAction ==
    /\ phase = "built"
    /\ phase' = "running"
    /\ entry' = "performAction"
    /\ stack' = <<Frame("performAction", "request", 1, FALSE)>>
    /\ UNCHANGED <<sink, arg, out, threads, total, ceiling, faults, app, heap, raised, ret, reqlog>>

\* recursive_query(action) by the user
CallRecursiveQuery ==
    /\ phase = "built"
    /\ heap[1].action = "API_DoQuery"
    /\ phase' = "running"
    /\ entry' = "recursive_query"
    /\ stack' = <<Frame("recursive_query", "start", 1, FALSE)>>
    /\ UNCHANGED <<sink, arg, out, threads, total, ceiling, faults, app, heap, raised, ret, reqlog>>

\* the call is over: the user drops the action and keeps the app
Discard ==
    /\ phase = "done"
    /\ total' = 0
    /\ ceiling' = 0
    /\ faults' = 0
    /\ heap' = <<>>
    /\ stack' = <<>>
    /\ phase' = "idle"
    /\ entry' = "none"
    /\ raised' = "none"
    /\ ret' = PyNone
    /\ reqlog' = <<>>
    /\ sink' = "unconfigured"
    /\ UNCHANGED <<app, arg, out, threads>>

Next ==
    \/ ConstructQuery
    \/ ConstructPurge
    \/ ConstructImport
    \/ CallPerformAction
    \/ CallRecursiveQuery
    \/ performAction_4
    \/ performAction_83
    \/ performAction_resent
    \/ performAction_75
    \/ performAction_paged
    \/ performAction_82
    \/ performAction_else
    \/ recursive_query_count
    \/ recursive_query_counted
    \/ recursive_query_fatal
    \/ recursive_query_halve
    \/ recursive_query_proceed
    \/ recursive_query_complete
    \/ recursive_query_fetch
    \/ recursive_query_merge
    \/ recursive_query_finish
    \/ Discard

Spec == Init /\ [][Next]_vars

----------------------------------------------------------------------------
(* The builders and helpers on their own: each is given one input, drawn   *)
(* at the start, and applied to it once.                                   *)

Input(fn, x) == [fn |-> fn, x |-> x]

\* query actions: kind, predicate, field list, sort list, UTF-8 flag
QueryForms ==
    [action : {"query", "qid", "qname", "querycount"},
     query : {None, Some(<<"p">>)},
     clist : {None, Some(<<"3", ".", "6">>)},
     slist : {Some(<<"0">>), Some(<<"3">>)},
     force_utf8 : BOOLEAN]

\* CSV values: None and the texts over a letter, the quote, the comma and
\* the line break
CsvTexts == Texts({"a", QUOTE, COMMA, NEWLINE}, MaxValueLen)
CsvValues == {None} \cup {Some(t) : t \in CsvTexts}
CsvFillers == {None, Some(<<"a">>)}

\* lines of one value, and of a value before or after a filler
CsvLines ==
    {<<v>> : v \in CsvValues}
    \cup {<<v, w>> : v \in CsvValues, w \in CsvFillers}
    \cup {<<w, v>> : v \in CsvValues, w \in CsvFillers}

\* field lists: sequences of at most MaxClistLen field ids
FieldIds == Texts({"6", "7"}, MaxIdLen) \ {<<>>}
RECURSIVE FieldLists(_)
FieldLists(n) ==
    IF n = 0 THEN {<<>>}
    ELSE LET shorter == FieldLists(n - 1)
         IN  shorter \cup {Append(l, f) : l \in shorter, f \in FieldIds}

\* configuration files of one or two rows, and a key that is a case variant
\* of a display name or short label of the file
TableNames == Texts({"a", "A"}, MaxNameLen) \ {<<>>}
TableRows(dbid, labels) ==
    {<<name, label, <<dbid>>>> : name \in TableNames, label \in labels}
TableFiles ==
    {<<r>> : r \in TableRows("t1", {<<"b">>, <<"B">>})}
    \cup {<<r, q>> : r \in TableRows("t1", {<<"b">>, <<"B">>}),
                     q \in TableRows("t2", {<<"6">>})}
CaseVariants(text) ==
    {v \in Texts({"a", "A", "b", "B", "6"}, Len(text)) :
        Len(v) = Len(text) /\ LowerText(v) = LowerText(text)}
TableKeys(rows) ==
    UNION {CaseVariants(rows[i][1]) \cup CaseVariants(rows[i][2]) : i \in DOMAIN rows}

\* field labels over letters, the space, punctuation and the underscore
FieldLabels == Texts({"a", "A", " ", "-", "_"}, MaxLabelLen)

BuilderInit ==
    /\ Idle
    /\ out = None
    /\ \/ \E f \in QueryForms : arg = Input("query", f)
       \/ \E t \in CsvTexts : arg = Input("csv", Payload("str", t))
       \/ \E l \in CsvLines \cup {<<>>} : arg = Input("csv", Payload("list", l))
       \/ \E l \in CsvLines : arg = Input("csv", Payload("nested", <<l>>))
       \/ \E l \in CsvLines, w \in CsvFillers :
            arg = Input("csv", Payload("nested", <<l, <<w>>>>))
       \/ \E l \in CsvLines : arg = Input("csv", Payload("dict", << <<<<"7">>, l>> >>))
       \/ \E l \in FieldLists(MaxClistLen) : arg = Input("clist", l)
       \/ \E rows \in TableFiles : \E key \in TableKeys(rows) :
            arg = Input("table", [rows |-> rows, dbid_key |-> key])
       \/ \E l \in FieldLabels : arg = Input("label", l)

\* the builder or helper applied to the input: `result` is what it produced
Apply(fn, result) ==
    /\ arg.fn = fn
    /\ IsNone(out)
    /\ out' = Some(result)
    /\ UNCHANGED <<total, ceiling, faults, app, heap, stack, phase, entry, raised,
                   ret, reqlog, sink, arg, threads>>

\* QuickbaseAction(app, dbid_key, <query kind>, query, clist, slist, ...)
BuildQueryAction ==
    Apply("query",
          QuickbaseAction(app, arg.x.action, arg.x.query, arg.x.clist, arg.x.slist,
                          NoPayload, FALSE, None, arg.x.force_utf8, None, None))

\* QuickbaseAction(app, dbid_key, 'csv', data=..., clist='3.6')
BuildImportAction ==
    Apply("csv",
          QuickbaseAction(app, "csv", None, Some(<<"3", ".", "6">>), None, arg.x,
                          FALSE, None, FALSE, None, None))

\* QuickbaseAction(app, dbid_key, 'query', clist=[...]): the clist it stores
StoreClist ==
    Apply("clist",
          QuickbaseAction(app, "query", None, Some(ClistString(arg.x)), None,
                          NoPayload, FALSE, None, FALSE, None, None).obj.clist)

\* the request URL of an action on the tables of a configuration file
LookupTable ==
    Apply("table", RequestURL(generateTableDict(arg.x.rows), arg.x.dbid_key))

\* the key getTableFIDDict(..., return_alphanumeric=True) files a label under
NormaliseLabel ==
    Apply("label", AlphanumericKey(arg.x))

BuilderNext ==
    \/ BuildQueryAction
    \/ BuildImportAction
    \/ StoreClist
    \/ LookupTable
    \/ NormaliseLabel

BuilderSpec == BuilderInit /\ [][BuilderNext]_vars

----------------------------------------------------------------------------
(* Queries built with options of the caller's *)

\* the options strings a caller passes: "sortorder-A", and
\* "num-300.sortorder-A.skp-1.onlynew"
SortOnly == <<Option("sortorder", "A")>>
OwnPaging ==
    <<Option("num", 300), Option("sortorder", "A"), Option("skp", 1),
      Option("onlynew", "")>>

\* totals and row ceilings under which the page size is halved
OptionScenarios == { <<5, 2>>, <<201, 100>>, <<400, 100>> }

\* a query with options, on a table that holds `total` matching records
ConstructQueryWithOptions ==
    /\ \/ Construct("query", Some(<<"p">>), None, None, NoPayload, FALSE, Some(SortOnly))
       \/ Construct("query", Some(<<"p">>), None, None, NoPayload, FALSE, Some(OwnPaging))
    /\ \E sc \in OptionScenarios : total' = sc[1] /\ ceiling' = sc[2]

OptionsNext ==
    \/ ConstructQueryWithOptions
    \/ CallPerformAction
    \/ CallRecursiveQuery
    \/ performAction_4
    \/ performAction_83
    \/ performAction_resent
    \/ performAction_75
    \/ performAction_paged
    \/ performAction_82
    \/ performAction_else
    \/ recursive_query_count
    \/ recursive_query_counted
    \/ recursive_query_fatal
    \/ recursive_query_halve
    \/ recursive_query_proceed
    \/ recursive_query_complete
    \/ recursive_query_fetch
    \/ recursive_query_merge
    \/ recursive_query_finish
    \/ Discard

OptionsSpec == Init /\ [][OptionsNext]_vars

----------------------------------------------------------------------------
(* Two callers that run performAction at the same time, each on its own    *)
(* action, both actions built on the one app. Each statement of the 4 and  *)
(* 83 branches is a step; the statement that rewrites authentication_string *)
(* reads the attribute in one step and stores the result in another.       *)

Callers == {1, 2}

\* a caller inside performAction: where it is, its retry argument, the errcode
\* of its first response and the string it has read
Thread(pc, retry, errcode, loaded) ==
    [pc |-> pc, retry |-> retry, errcode |-> errcode, loaded |-> loaded]

\* the tag the branch of an errcode replaces, and the one it writes
Old(errcode) == IF errcode = 4 THEN "ticket" ELSE "usertoken"
New(errcode) == IF errcode = 4 THEN "usertoken" ELSE "ticket"

\* mutant: authentication_type is left as it was
RetypeSkipped(a, new) == a

\* self.app.authentication_type = 'usertoken' / 'ticket'
Retype(a, new) == [a EXCEPT !.authentication_type = new]

\* both actions are built, and both callers are about to send
RaceInit ==
    /\ total = 0
    /\ ceiling = 0
    /\ faults = 0
    /\ \E kind \in AuthKinds :
         /\ app = QuickbaseApp(kind)
         /\ heap = [t \in Callers |->
                      QuickbaseAction(QuickbaseApp(kind), "query", Some(<<"p">>), None,
                                      None, NoPayload, FALSE, None, FALSE, None, None).obj]
    /\ stack = <<>>
    /\ phase = "running"
    /\ entry = "performAction"
    /\ raised = "none"
    /\ ret = PyNone
    /\ reqlog = <<>>
    /\ sink = "unconfigured"
    /\ arg = <<>>
    /\ out = <<>>
    /\ threads = [t \in Callers |-> Thread("request", FALSE, 0, <<>>)]

\* what a step of a caller leaves alone, besides app, heap and reqlog
RaceFrame ==
    UNCHANGED <<total, ceiling, faults, stack, phase, entry, raised, ret, sink, arg, out>>

\* urlopen and the if / elif chain: the errcode decides where the caller goes
concurrent_request(t) ==
    /\ threads[t].pc = "request"
    /\ \E s \in {0, 4, 83} :
         /\ reqlog' = Append(reqlog, [obj |-> t, status |-> s, retry |-> threads[t].retry,
                                      cred |-> CredentialTag(heap[t].data)])
         /\ threads' = [threads EXCEPT ![t].pc =
                            IF Branch(s) = "else" THEN "returned"
                            ELSE IF AuthRetryExhausted(threads[t].retry) THEN "raised"
                            ELSE "load",
                          ![t].errcode = IF threads[t].retry THEN @ ELSE s]
    /\ UNCHANGED <<app, heap>>
    /\ RaceFrame

\* the right-hand side of the first assignment reads authentication_string
concurrent_load(t) ==
    /\ threads[t].pc = "load"
    /\ threads' = [threads EXCEPT ![t].pc = "string",
                                   ![t].loaded = app.authentication_string]
    /\ UNCHANGED <<app, heap, reqlog>>
    /\ RaceFrame

\* ... and the replaced string is stored
concurrent_string(t) ==
    /\ threads[t].pc = "string"
    /\ app' = [app EXCEPT !.authentication_string =
                  StrReplace(threads[t].loaded, Old(threads[t].errcode),
                             New(threads[t].errcode))]
    /\ threads' = [threads EXCEPT ![t].pc = "data"]
    /\ UNCHANGED <<heap, reqlog>>
    /\ RaceFrame

\* self.data and self.request.data are the caller's own
concurrent_data(t) ==
    /\ threads[t].pc = "data"
    /\ heap' = [heap EXCEPT ![t] = FlipAction(@, Old(threads[t].errcode),
                                               New(threads[t].errcode))]
    /\ threads' = [threads EXCEPT ![t].pc = "type"]
    /\ UNCHANGED <<app, reqlog>>
    /\ RaceFrame

concurrent_type(t) ==
    /\ threads[t].pc = "type"
    /\ app' = Retype(app, New(threads[t].errcode))
    /\ threads' = [threads EXCEPT ![t].pc = "resend"]
    /\ UNCHANGED <<heap, reqlog>>
    /\ RaceFrame

\* self.performAction(retry=True)
concurrent_resend(t) ==
    /\ threads[t].pc = "resend"
    /\ threads' = [threads EXCEPT ![t].pc = "request", ![t].retry = TRUE]
    /\ UNCHANGED <<app, heap, reqlog>>
    /\ RaceFrame

RaceNext ==
    \E t \in Callers :
        \/ concurrent_request(t)
        \/ concurrent_load(t)
        \/ concurrent_string(t)
        \/ concurrent_data(t)
        \/ concurrent_type(t)
        \/ concurrent_resend(t)

RaceSpec == RaceInit /\ [][RaceNext]_vars

----------------------------------------------------------------------------
(* What the claims speak of *)

Last(seq) == seq[Len(seq)]

\* the requests of fractional queries: the page fetches of recursive_query
IsFetch(e) == e.obj # 1 /\ e.action = "API_DoQuery"
FetchLog == SelectSeq(reqlog, IsFetch)

\* every status so far was the one the row ceiling decides
CeilingRuled == \A i \in DOMAIN reqlog : reqlog[i].regular

\* recursive_query has run on the user's query: called directly, or entered
\* from performAction on a first response of status 75
Paginated ==
    \/ entry = "recursive_query"
    \/ entry = "performAction" /\ reqlog # <<>> /\ reqlog[1].status = 75

Returned == phase = "done" /\ raised = "none" /\ entry # "none"

\* the records 1..n, each once and in order
ExactlyAll(values, n) ==
    /\ CountRecords(values) = n
    /\ \A i \in DOMAIN values :
         values[i][1] = (IF i = 1 THEN 1 ELSE values[i - 1][2] + 1)

AllFetches75 == \A i \in DOMAIN FetchLog : FetchLog[i].status = 75

Successes == Len(SelectSeq(FetchLog, LAMBDA e : e.status = 0))

----------------------------------------------------------------------------
(* C1: when recursive_query, run on a query with no prior response against *)
(* a server that answers each fetch by its row ceiling, returns, the       *)
(* accumulated response.values are the records 1..total, each exactly once *)
(* and without gaps.                                                       *)
C1_ExactRecords ==
    (Returned /\ Paginated /\ CeilingRuled) =>
        /\ ~IsNone(heap[1].response)
        /\ ExactlyAll(Get(heap[1].response), total)

\* a pagination of 20000 records that met status 75 and returned
C1_Witness ==
    /\ Returned /\ Paginated /\ CeilingRuled
    /\ total = 20000
    /\ \E i \in DOMAIN FetchLog : FetchLog[i].status = 75
    /\ Successes >= 2

(* C2: recursive_query always terminates, by returning the accumulated     *)
(* result or by raising the fatal query-volume error (QuickbaseError),     *)
(* without unbounded recursion.                                            *)
C2_Terminates ==
    (phase = "done" /\ Paginated /\ CeilingRuled) =>
        raised \in {"none", "QuickbaseError"}

(* C3: QuickbaseError is raised only when the most recent fetch returned   *)
(* status 75 at a page size below 100, from either entry.                  *)
C3_VolumeErrorOnlyAfter75 ==
    raised = "QuickbaseError" =>
        /\ FetchLog # <<>>
        /\ IsFetch(Last(reqlog))
        /\ Last(reqlog).status = 75
        /\ Get(Last(reqlog).num) < MinPage

(* C4: a first response of status 4 or 83 rewrites the credential tag of   *)
(* the request and re-sends it exactly once; a second 4 or 83 raises       *)
(* AuthenticationError; no action object ever sends a third request.       *)
C4_OneResend ==
    /\ \A o \in DOMAIN heap :
         Cardinality({i \in DOMAIN reqlog : reqlog[i].obj = o}) <= 2
    /\ \A i \in DOMAIN reqlog :
         LET e == reqlog[i]
             mismatch == e.status \in {4, 83}
             stale == IF e.status = 4 THEN "ticket" ELSE "usertoken"
         IN  /\ e.retry =>
                   /\ i > 1
                   /\ reqlog[i - 1].obj = e.obj
                   /\ reqlog[i - 1].status \in {4, 83}
                   /\ ~reqlog[i - 1].retry
             /\ (mismatch /\ ~e.retry) =>
                   /\ \A k \in DOMAIN heap[e.obj].data :
                        /\ heap[e.obj].data[k] # stale
                        /\ heap[e.obj].request_data[k] # <<"b", stale>>
                   /\ IF i < Len(reqlog)
                      THEN reqlog[i + 1].obj = e.obj /\ reqlog[i + 1].retry
                      ELSE /\ Running("performAction", "request")
                           /\ Top.self = e.obj
                           /\ Top.retry
             /\ (mismatch /\ e.retry) =>
                   /\ i = Len(reqlog)
                   /\ phase = "done"
                   /\ raised = "AuthenticationError"

\* a request rejected, rewritten, re-sent and rejected again
C4_Witness ==
    /\ raised = "AuthenticationError"
    /\ Len(reqlog) >= 2
    /\ reqlog[Len(reqlog) - 1].status = 4
    /\ Last(reqlog).status = 83
    /\ Last(reqlog).obj = reqlog[Len(reqlog) - 1].obj

(* C5: a response of status 82 raises QuickbaseQueryError and no further   *)
(* request is sent for the action, also on a re-issued request and on a    *)
(* page fetch.                                                             *)
C5_NoRequestAfter82 ==
    \A i \in DOMAIN reqlog :
        reqlog[i].status = 82 =>
            /\ i = Len(reqlog)
            /\ phase = "done"
            /\ raised = "QuickbaseQueryError"

\* status 82 on the re-issued request of a page fetch
C5_Witness ==
    /\ reqlog # <<>>
    /\ Last(reqlog).status = 82
    /\ Last(reqlog).retry
    /\ IsFetch(Last(reqlog))
    /\ raised = "QuickbaseQueryError"

(* C6: no purge action exists, and none is sent, unless its confirmation   *)
(* flag is set and its predicate is non-empty.                             *)
C6_PurgeGuarded ==
    \A o \in DOMAIN heap :
        heap[o].action = "API_PurgeRecords" =>
            /\ heap[o].confirmation
            /\ Truthy(heap[o].query)

(* C7: performAction on a query returns the result to its caller, the same *)
(* kind of value after pagination or a credential flip as for a query      *)
(* answered in one response.                                               *)
C7_ReturnsResult ==
    (Returned /\ entry = "performAction" /\ heap[1].action = "API_DoQuery") =>
        ret = Result(heap[1])

(* C8: recursive_query on a known total N of at least 1 returns after      *)
(* exactly ceil(N / G) successful fetches, G being the working page size   *)
(* (unless the page size collapsed and QuickbaseError was raised).         *)
C8_FetchCount ==
    (phase = "done" /\ entry = "recursive_query" /\ CeilingRuled
        /\ total >= 1 /\ raised # "QuickbaseError") =>
        /\ raised = "none"
        /\ FetchLog # <<>>
        /\ LET G == Get(Last(FetchLog).num)
           IN  (Successes - 1) * G < total /\ total <= Successes * G

(* C9, as claimed: when every fetch down the halving schedule returns      *)
(* status 75, QuickbaseError is raised without any fetch of page size 50   *)
(* or less having been issued (taken here for an initial size that is      *)
(* itself not below 100, so that the schedule does halve).                 *)
C9_NoFetchAtFiftyOrLess ==
    (raised = "QuickbaseError" /\ AllFetches75 /\ FetchLog # <<>>
        /\ Get(FetchLog[1].num) >= MinPage) =>
        \A i \in DOMAIN FetchLog : Get(FetchLog[i].num) > 50

(* C9, amended: when every fetch returns status 75, each fetch after the   *)
(* first is at half the size of the one before, which was at least 100;    *)
(* the run ends in QuickbaseError after the first failed fetch below 100.  *)
(* So no halved page size is below 50, and from 8192 none is below 64.     *)
C9_HalvingStopsBelowMinPage ==
    AllFetches75 =>
        /\ \A i \in 2..Len(FetchLog) :
             /\ Get(FetchLog[i - 1].num) >= MinPage
             /\ Get(FetchLog[i].num) = Get(FetchLog[i - 1].num) \div 2
             /\ Get(FetchLog[i].num) >= 50
        /\ (FetchLog # <<>> /\ Get(FetchLog[1].num) = PageCeiling) =>
             \A i \in DOMAIN FetchLog : Get(FetchLog[i].num) >= 64
        /\ (phase = "done" /\ FetchLog # <<>>) =>
             /\ raised = "QuickbaseError"
             /\ Get(Last(FetchLog).num) < MinPage

\* the schedule 8192, 4096, ..., 64 failed throughout
C9_Witness ==
    /\ raised = "QuickbaseError"
    /\ AllFetches75
    /\ Len(FetchLog) = 8
    /\ Get(FetchLog[1].num) = PageCeiling
    /\ Get(Last(FetchLog).num) = 64

(* C10: every fetch carries a num- directive of at least 1 when the known  *)
(* total is at least 1.                                                    *)
C10_PageSizePositive ==
    total >= 1 => \A i \in DOMAIN FetchLog : Get(FetchLog[i].num) >= 1

(* C11: whatever the calls and the statuses answered, credential flips      *)
(* included, the payload of every action is its stored text encoded:       *)
(* request.data = data.encode('utf-8').                                    *)
C11_PayloadMatchesText ==
    \A o \in DOMAIN heap : heap[o].request_data = Encode(heap[o].data)

\* an action built with a ticket, answered 4, now naming a usertoken
C11_Witness ==
    /\ \E i \in DOMAIN reqlog :
         /\ reqlog[i].status = 4
         /\ ~reqlog[i].retry
         /\ \E k \in DOMAIN heap[reqlog[i].obj].data :
              heap[reqlog[i].obj].data[k] = "usertoken"
         /\ \A k \in DOMAIN heap[reqlog[i].obj].data :
              heap[reqlog[i].obj].data[k] # "ticket"
    /\ phase = "done"

(* C12: telemetry never affects the primary call. Whatever the sink does   *)
(* (unconfigured, taking the point, failing when its client is constructed *)
(* or when the point is written), no telemetry error ends a call, and in   *)
(* every state the telemetry call of every action raises nothing under     *)
(* every kind of sink: performAction reads the sink through nothing else,  *)
(* so its return value, object state and exceptions are those of the run   *)
(* with any other sink. A point is written exactly when the sink takes it. *)
C12_TelemetrySilent ==
    /\ raised \notin TelemetryErrors
    /\ \A o \in DOMAIN heap, k \in SinkKinds :
         Telemetry(k, heap[o].action).exc = "none"
    /\ \A i \in DOMAIN reqlog :
         reqlog[i].point = (IF sink = "ok" THEN Some(reqlog[i].action) ELSE None)

\* a pagination that returned while every write of a point failed
C12_Witness ==
    /\ sink = "write_fails"
    /\ Returned /\ entry = "performAction" /\ Paginated
    /\ Len(reqlog) >= 3
    /\ \A i \in DOMAIN reqlog : IsNone(reqlog[i].point)

(* C13: for an 'edit' and for a 'csv' action alike, a response without an   *)
(* error status (here: the only response of the call, holding a rids list) *)
(* makes performAction set the three counters, each "0" when its element   *)
(* is absent, and return the record ids of the rids list.                  *)
C13_ImportCounters ==
    (/\ Returned /\ entry = "performAction"
     /\ heap[1].action = "API_ImportFromCSV"
     /\ Len(reqlog) = 1
     /\ ~IsNone(heap[1].content)
     /\ ~IsNone(Get(heap[1].content).rids)) =>
        LET c == Get(heap[1].content)
            text(element) == IF IsNone(element) THEN <<"0">> ELSE Get(element)
        IN  /\ heap[1].num_recs_input = Some(text(c.input))
            /\ heap[1].num_recs_added = Some(text(c.added))
            /\ heap[1].num_recs_updated = Some(text(c.updated))
            /\ ret.kind = "rid_list"
            /\ ret.n = Get(c.rids)

\* a builder or helper was applied to an input
Applied(fn) == arg # <<>> /\ arg.fn = fn /\ ~IsNone(out)

\* sub occurs in text as a run of consecutive words
Contains(text, sub) ==
    \E i \in 0..(Len(text) - Len(sub)) : SubSeq(text, i + 1, i + Len(sub)) = sub

(* C14: building a query action (query, qid, qname or querycount) with     *)
(* sort list "0" succeeds, and its body holds the predicate when given,    *)
(* the clist when given, and no slist element; with another sort list the  *)
(* body holds that slist.                                                  *)
C14_SortListZeroBuilds ==
    Applied("query") =>
        LET f == arg.x
            built == Get(out)
            body == built.obj.data
        IN  /\ built.exc = "none"
            /\ ~IsNone(f.query) =>
                  Contains(body, <<built.obj.action_string>> \o Get(f.query)
                                 \o <<built.obj.action_string>>)
            /\ ~IsNone(f.clist) =>
                  Contains(body, <<"clist">> \o Get(f.clist) \o <<"clist">>)
            /\ IF f.slist = Some(<<"0">>)
               THEN ~Contains(body, <<"slist">>)
               ELSE Contains(body, <<"slist">> \o Get(f.slist) \o <<"slist">>)

\* the words of a body between the opening and the closing tag
Between(text, tag) ==
    LET first == CHOOSE i \in DOMAIN text :
                     text[i] = tag /\ \A j \in 1..(i - 1) : text[j] # tag
        last  == CHOOSE i \in DOMAIN text :
                     text[i] = tag /\ \A j \in (i + 1)..Len(text) : text[j] # tag
    IN  SubSeq(text, first + 1, last - 1)

\* a text with every quote written twice
RECURSIVE EachQuoteTwice(_)
EachQuoteTwice(t) ==
    IF t = <<>> THEN <<>>
    ELSE IF Head(t) = QUOTE THEN <<QUOTE, QUOTE>> \o EachQuoteTwice(Tail(t))
    ELSE <<Head(t)>> \o EachQuoteTwice(Tail(t))

\* a value as the claim has it rendered: None as the empty field, a value
\* with a quote doubled and wrapped, one with a comma or a line break wrapped
ExpectedField(value) ==
    LET t == IF IsNone(value) THEN <<>> ELSE Get(value)
    IN  IF \E i \in DOMAIN t : t[i] = QUOTE
        THEN <<QUOTE>> \o EachQuoteTwice(t) \o <<QUOTE>>
        ELSE IF \E i \in DOMAIN t : t[i] \in {COMMA, NEWLINE}
        THEN <<QUOTE>> \o t \o <<QUOTE>>
        ELSE t

\* the fields of a line, separated by commas and ended by a line break
RECURSIVE ExpectedLine(_)
ExpectedLine(line) ==
    IF Len(line) = 1 THEN ExpectedField(line[1]) \o <<NEWLINE>>
    ELSE ExpectedField(Head(line)) \o <<COMMA>> \o ExpectedLine(Tail(line))

RECURSIVE ExpectedLines(_)
ExpectedLines(lines) ==
    IF lines = <<>> THEN <<>>
    ELSE ExpectedLine(Head(lines)) \o ExpectedLines(Tail(lines))

ExpectedCsv(payload) ==
    CASE payload.kind = "str" -> ExpectedField(Some(payload.v))
      [] payload.kind = "list" -> ExpectedLine(payload.v)
      [] payload.kind = "nested" -> ExpectedLines(payload.v)
      [] payload.kind = "dict" ->
           payload.v[1][1] \o <<COMMA>> \o ExpectedLine(payload.v[1][2])

(* C15: for a string, a flat list, a nested list and a mapping alike, the  *)
(* CSV text of the body renders every value as claimed: a value with a     *)
(* quote has every quote doubled and is wrapped in quotes, a value with a  *)
(* comma or a line break is wrapped in quotes once, and None is the empty  *)
(* field (payloads of at least one value).                                 *)
C15_CsvRendering ==
    (Applied("csv") /\ arg.x.v # <<>>) =>
        /\ Get(out).exc = "none"
        /\ Between(Get(out).obj.data, "records_csv") = ExpectedCsv(arg.x)

(* C16, as claimed: for every sequence of field ids passed as clist, the   *)
(* empty one included, the stored dotted string splits on "." back into    *)
(* the sequence.                                                           *)
C16_ClistRoundTrip ==
    Applied("clist") => Split(Get(Get(out)), ".") = arg.x

(* C16, amended: the round trip holds for every sequence of at least one   *)
(* field id; the empty sequence is stored as the empty string, which       *)
(* splits into one empty id.                                               *)
C16_ClistRoundTripNonEmpty ==
    Applied("clist") =>
        /\ ~IsNone(Get(out))
        /\ arg.x # <<>> => Split(Get(Get(out)), ".") = arg.x
        /\ arg.x = <<>> => Get(Get(out)) = <<>> /\ Split(Get(Get(out)), ".") = << <<>> >>

\* three field ids, one of two digits, stored and split again
C16_Witness ==
    /\ Applied("clist")
    /\ arg.x = << <<"6">>, <<"7", "6">>, <<"7">> >>
    /\ Get(out) = Some(<<"6", ".", "7", "6", ".", "7">>)

\* the names and labels of a configuration file differ beyond their case
DistinctIgnoringCase(rows) ==
    \A i, j \in DOMAIN rows : \A m, n \in 1..2 :
        LowerText(rows[i][m]) = LowerText(rows[j][n]) => (i = j /\ m = n)

(* C17: for every display name or short label of the configuration file   *)
(* (no two of them equal up to case) and every upper / lower case variant  *)
(* of it used as dbid_key, the request URL targets the identifier          *)
(* configured for that table.                                              *)
C17_LookupIgnoresCase ==
    (Applied("table") /\ DistinctIgnoringCase(arg.x.rows)) =>
        \A i \in DOMAIN arg.x.rows : \A m \in 1..2 :
            LowerText(arg.x.rows[i][m]) = LowerText(arg.x.dbid_key) =>
                Get(out) = <<"base_url", arg.x.rows[i][3]>>

\* letters and digits
Alphanumeric == {"a", "A", "b", "B", "6"}

\* a label in lower case with every run of other characters as one "_"
RECURSIVE Collapsed(_, _)
Collapsed(label, inRun) ==
    IF label = <<>> THEN <<>>
    ELSE IF Head(label) \in Alphanumeric
    THEN <<Lower(Head(label))>> \o Collapsed(Tail(label), FALSE)
    ELSE (IF inRun THEN <<>> ELSE <<"_">>) \o Collapsed(Tail(label), TRUE)

(* C18, as claimed: the normalized key of a field label is the label in    *)
(* lower case with every run of consecutive non-alphanumeric characters    *)
(* collapsed to a single underscore.                                       *)
C18_RunsCollapsed ==
    Applied("label") => Get(out) = Collapsed(arg.x, FALSE)

(* C18, amended: the normalized key has the length of the label; letters   *)
(* and digits are kept, in lower case, and every other character is        *)
(* replaced by one underscore of its own, so a run of k of them gives k    *)
(* underscores.                                                            *)
C18_EachCharReplaced ==
    Applied("label") =>
        /\ Len(Get(out)) = Len(arg.x)
        /\ \A i \in DOMAIN arg.x :
             Get(out)[i] = (IF arg.x[i] \in Alphanumeric THEN Lower(arg.x[i]) ELSE "_")

\* a capital letter followed by a space and a hyphen
C18_Witness ==
    /\ Applied("label")
    /\ arg.x = <<"A", " ", "-">>
    /\ Get(out) = <<"a", "_", "_">>

\* the count requests of the call
CountLog == SelectSeq(reqlog, LAMBDA e : e.action = "API_DoQueryCount")

C20_ShrinkOnFailure ==
    /\ \A i \in DOMAIN FetchLog :
         (FetchLog[i].status = 75 /\ Get(FetchLog[i].num) >= 100) =>
            IF i < Len(FetchLog)
            THEN /\ FetchLog[i + 1].num = Some(Get(FetchLog[i].num) \div 2)
                 /\ ~FetchLog[i + 1].flagged
            ELSE phase = "running"
    /\ (total = 20000 /\ ceiling = 4000 /\ CeilingRuled /\ Len(FetchLog) >= 3) =>
         /\ FetchLog[1].num = Some(8192) /\ FetchLog[1].status = 75
         /\ FetchLog[2].num = Some(4096) /\ FetchLog[2].status = 75
         /\ FetchLog[3].num = Some(2048) /\ FetchLog[3].status = 0

\* 20000 records under a ceiling of 4000, fetched after two halvings
C20_Witness ==
    /\ Returned /\ Paginated /\ CeilingRuled
    /\ total = 20000 /\ ceiling = 4000
    /\ Len(FetchLog) >= 3
    /\ FetchLog[2].status = 75
    /\ FetchLog[3].num = Some(2048)
    /\ FetchLog[3].status = 0

\* the offset a fetch starts at: its skp- directive, or 0 without one
Offset(e) == IF IsNone(e.skp) THEN 0 ELSE Get(e.skp)

(* C21: within one pagination, from either entry, the page size of a fetch *)
(* differs from that of the fetch before only if that one was answered 75; *)
(* and under a server answering by its ceiling, once a fetch has succeeded *)
(* at a page size every later fetch is at that page size and starts at an  *)
(* offset strictly above that of the fetch before it.                      *)
C21_PageSizeStable ==
    Paginated =>
        /\ \A i \in 1..(Len(FetchLog) - 1) :
             FetchLog[i + 1].num # FetchLog[i].num => FetchLog[i].status = 75
        /\ CeilingRuled =>
             \A i \in DOMAIN FetchLog : \A j \in (i + 1)..Len(FetchLog) :
                FetchLog[i].status = 0 =>
                   /\ FetchLog[j].num = FetchLog[i].num
                   /\ Offset(FetchLog[j]) > Offset(FetchLog[j - 1])

(* C22: every fetch of recursive_query sent while the pagination holds    *)
(* records carries a skp- directive equal to the number of records         *)
(* accumulated at that moment, and a fetch sent while it holds none (the   *)
(* first one) carries no skp- directive.                                   *)
C22_SkipIsAccumulated ==
    Paginated =>
        /\ FetchLog # <<>> => IsNone(FetchLog[1].skp)
        /\ \A i \in DOMAIN FetchLog : FetchLog[i].skp = FetchLog[i].pooled

\* the records the issuer of a fetch held as it was sent
Accumulated(e) == IF IsNone(e.held) THEN 0 ELSE Get(e.held)

(* C23: recursive_query sends no fetch once the records accumulated are at *)
(* least the known total, and what it returns holds at least the total;    *)
(* conversely, while fewer are accumulated it sends another fetch: a call  *)
(* whose last fetch succeeded ends only by returning the full result.      *)
C23_TerminationCheck ==
    Paginated =>
        /\ \A i \in DOMAIN FetchLog : Accumulated(FetchLog[i]) < total
        /\ Returned =>
             /\ ~IsNone(heap[1].response)
             /\ CountRecords(Get(heap[1].response)) >= total
        /\ (phase = "done" /\ reqlog # <<>> /\ IsFetch(Last(reqlog))
                /\ Last(reqlog).status = 0) =>
             /\ raised = "none"
             /\ ~IsNone(heap[1].response)
             /\ CountRecords(Get(heap[1].response)) >= total

\* the options of an options string other than num- and skp-
OtherOptions(options) == SelectSeq(options, LAMBDA t : t.k \notin {"num", "skp"})

\* the num- and skp- directives of an options string
PagingDirectives(options) == SelectSeq(options, LAMBDA t : t.k \in {"num", "skp"})

\* the action objects of the page fetches
FetchObjects == {o \in DOMAIN heap : o # 1 /\ heap[o].action = "API_DoQuery"}

(* C24: the options of every fetch of recursive_query are the caller's     *)
(* options other than num- and skp-, unchanged and in order, followed by   *)
(* one num- directive and at most one skp- directive, the controller's     *)
(* own; also in the fetches that follow a halving of the page size.        *)
C24_OptionsAssembled ==
    \A o \in FetchObjects :
        LET options == Get(heap[o].options)
            others  == OtherOptions(Get(heap[1].options))
            paging  == PagingDirectives(options)
        IN  /\ ~IsNone(heap[1].options)
            /\ SubSeq(options, 1, Len(others)) = others
            /\ SubSeq(options, Len(others) + 1, Len(options)) = paging
            /\ Len(paging) \in {1, 2}
            /\ paging[1].k = "num"
            /\ Len(paging) = 2 => paging[2].k = "skp"

\* a call with "num-300.sortorder-A.skp-1.onlynew" whose page size was
\* halved and that went on to fetch at an offset
C24_Witness ==
    /\ heap # <<>>
    /\ heap[1].options = Some(OwnPaging)
    /\ \E i \in DOMAIN FetchLog : FetchLog[i].status = 75
    /\ \E o \in FetchObjects :
         /\ Len(PagingDirectives(Get(heap[o].options))) = 2
         /\ PagingDirectives(Get(heap[o].options))[1].v < InitialPageSize(total)
         /\ OtherOptions(Get(heap[o].options))
              = <<Option("sortorder", "A"), Option("onlynew", "")>>

(* C25: after a first response of status 4 or 83, whatever the kind in use *)
(* and whichever of the two statuses, the re-sent request carries the      *)
(* other credential kind than the rejected one, and the application        *)
(* context names the other kind as well.                                   *)
C25_ResendFlipsKind ==
    \A i \in DOMAIN reqlog :
        reqlog[i].retry =>
            /\ reqlog[i].cred # reqlog[i - 1].cred
            /\ reqlog[i].kind # reqlog[i - 1].kind

\* authentication_type names another kind than the tag of the string
Mismatch == app.authentication_type # CredentialTag(app.authentication_string)

\* no caller is between the first and the last statement of a flip
Quiescent == \A t \in DOMAIN threads : threads[t].pc \notin {"load", "string", "data", "type"}

\* the caller has flipped the kind on errcode s
Flipped(t, s) ==
    /\ threads[t].errcode = s
    /\ threads[t].retry \/ threads[t].pc = "resend"

(* C26: two callers of performAction on actions of one app can leave       *)
(* authentication_type naming another kind than the tag of                 *)
(* authentication_string, and only by interleaving the flips of a status 4 *)
(* and of a status 83: whenever the two disagree with no caller inside a   *)
(* flip, one caller has flipped on 4 and the other on 83.                  *)
C26_MismatchNeedsOpposedFlips ==
    (threads # <<>> /\ Quiescent /\ Mismatch) =>
        \E t, u \in Callers : t # u /\ Flipped(t, 4) /\ Flipped(u, 83)

\* both callers are out of performAction, one after a 4 and one after an 83,
\* and the app names one kind and carries the tag of the other
C26_Witness ==
    /\ threads # <<>>
    /\ \A t \in Callers : threads[t].pc \in {"returned", "raised"}
    /\ \E t, u \in Callers : t # u /\ Flipped(t, 4) /\ Flipped(u, 83)
    /\ Mismatch

(* C27: used by one caller at a time, the app built with a ticket or a    *)
(* token names in authentication_type the tag of its authentication_string *)
(* at every moment between statements of the caller: after construction    *)
(* and after any performAction calls, whatever statuses were answered.     *)
C27_TypeNamesTag ==
    threads = <<>> =>
        /\ app.authentication_type \in AuthKinds
        /\ app.authentication_string[1] = app.authentication_type
        /\ Last(app.authentication_string) = app.authentication_type

\* a call that was answered 4 and then served has ended, the app now of the
\* other kind than the one the request was first sent with
C27_Witness ==
    /\ threads = <<>>
    /\ phase = "done"
    /\ Len(reqlog) = 2
    /\ reqlog[1].status = 4 /\ reqlog[1].cred = "ticket"
    /\ reqlog[2].status = 0 /\ reqlog[2].retry
    /\ app.authentication_type = "usertoken"

\* the fetches that carried an offset above 0 and were answered 75
FailedAtOffset == {i \in DOMAIN FetchLog : FetchLog[i].status = 75 /\ Offset(FetchLog[i]) > 0}

(* C28: when a fetch that carries a skip offset K > 0 is answered 75, the  *)
(* fetch that follows is at half its page size and at offset K, and the    *)
(* call, when it returns, still holds each of the records once.            *)
C28_RecoveryResumesAtOffset ==
    Paginated =>
        /\ \A i \in FailedAtOffset :
             i < Len(FetchLog) =>
                /\ FetchLog[i + 1].num = Some(Get(FetchLog[i].num) \div 2)
                /\ Offset(FetchLog[i + 1]) = Offset(FetchLog[i])
        /\ (Returned /\ FailedAtOffset # {}) =>
             /\ ~IsNone(heap[1].response)
             /\ ExactlyAll(Get(heap[1].response), total)

\* the action objects of the count requests
CountObjects == {o \in DOMAIN heap : heap[o].action = "API_DoQueryCount"}

(* C29: within one pagination one count action is built and sent, before  *)
(* any fetch (a re-send after a status 4 or 83 apart); the total it yields *)
(* is the record_count of the paged object from then on and of every page  *)
(* fetch and nested recovery, whatever the fetches are answered.           *)
C29_CountOnceAndKept ==
    Paginated =>
        /\ Cardinality(CountObjects) <= 1
        /\ Len(SelectSeq(CountLog, LAMBDA e : ~e.retry)) <= 1
        /\ \A i \in DOMAIN reqlog :
             IsFetch(reqlog[i]) => \E j \in 1..(i - 1) : reqlog[j].obj \in CountObjects
        /\ heap[1].record_count \in {None, Some(total)}
        /\ \A o \in FetchObjects : heap[o].record_count = Some(total)

\* 20000 records fetched through nested recoveries, injected statuses included
C29_Witness ==
    /\ Returned /\ Paginated
    /\ total = 20000
    /\ ~CeilingRuled
    /\ \E i \in DOMAIN FetchLog : FetchLog[i].status = 75 /\ FetchLog[i].regular
    /\ Cardinality(FetchObjects) >= 4
    /\ heap[1].record_count = Some(20000)

\* the kind the flip of the call set, when the call ended on a second mismatch
FlipKind == New(reqlog[Len(reqlog) - 1].status)

\* the app and the action of the rejected request carry the kind of the flip
FlipKept ==
    LET o == heap[Last(reqlog).obj]
    IN  /\ app.authentication_type = FlipKind
        /\ app.authentication_string = AuthString(FlipKind)
        /\ CredentialTag(o.data) = FlipKind
        /\ o.request_data = Encode(o.data)

(* C30: when performAction raises AuthenticationError the rewrite of the   *)
(* flip stays: the app's authentication_type and authentication_string and *)
(* the action's data and request.data carry the kind the flip set; the app *)
(* is not changed when the failed action is dropped, and every action      *)
(* built afterwards carries the kind the app names.                        *)
C30_FlipNotRolledBack ==
    /\ [](raised = "AuthenticationError" => FlipKept)
    /\ [][raised = "AuthenticationError" => app' = app]_vars
    /\ [](phase = "built" => CredentialTag(heap[1].data) = app.authentication_type)

\* a usertoken request answered 83, re-sent with a ticket and rejected again
C30_Witness ==
    /\ raised = "AuthenticationError"
    /\ reqlog[Len(reqlog) - 1].status = 83
    /\ reqlog[Len(reqlog) - 1].cred = "usertoken"
    /\ Last(reqlog).cred = "ticket"
    /\ app.authentication_type = "ticket"
    /\ CredentialTag(heap[Last(reqlog).obj].data) = "ticket"

====
